---- MODULE Spec2Model ----
(***************************************************************************)
(* The tool-invocation protocol of my-machine-bot: the scanner             *)
(* (extract_tool_calls), the dispatcher (execute_tool), the orchestrator   *)
(* (chat) and the session loop (main) of src/chat.py, with the registry    *)
(* TOOLS of src/system_tools.py.                                           *)
(*                                                                         *)
(* A Python str is a sequence of one-character strings, so that the        *)
(* regular expression, str.lower, str.strip, str.format and the f-strings  *)
(* are computed character by character.                                    *)
(***************************************************************************)
EXTENDS Integers, Sequences, FiniteSets, TLC

VARIABLES
    pc,                 \* where main/chat stands: "prompt", "call1", "tools", "call2", "ended"
    history,            \* main's list `history`: sequence of [role, content]
    assistant_message,  \* chat's local: the first reply while the tools run
    tool_calls,         \* chat's local: the names extract_tool_calls returned
    tool_results,       \* chat's local: the "Results from ..." strings so far
    requests,           \* the ollama.chat calls of the current chat call: their `messages`
    dispatched,         \* every execute_tool call so far: [name, outcome, called, value, raised]
    invoked,            \* every TOOLS[name]["function"]() call so far: the name
    shown,              \* every value chat returned to main (printed as Bot)
    errors,             \* every exception main's `except Exception` reported
    turn,               \* the chat call in progress or last finished: its entry marks and outcome
    turns,              \* number of chat calls started
    text,               \* the scanner's argument (scanner specification)
    found,              \* the scanner's result on text, << >> before the call
    ended_by            \* how the loop was left: "none", "quit" (line 151), "interrupt" (line 164)

vars == <<pc, history, assistant_message, tool_calls, tool_results, requests,
          dispatched, invoked, shown, errors, turn, turns, text, found, ended_by>>

\* ------------------------------------------------------------------ bounds

\* chat calls per session
MaxTurns == 2

\* fragments concatenated into a scanned text
MaxFrags == 3

\* ------------------------------------------------------- characters, str

\* Python's \s on the characters used here
Whitespace == {" ", "\t", "\n", "\r", "\f"}

UpperLetters ==
    <<"A","B","C","D","E","F","G","H","I","J","K","L","M",
      "N","O","P","Q","R","S","T","U","V","W","X","Y","Z">>

LowerLetters ==
    <<"a","b","c","d","e","f","g","h","i","j","k","l","m",
      "n","o","p","q","r","s","t","u","v","w","x","y","z">>

DigitChars == <<"0","1","2","3","4","5","6","7","8","9">>

\* Python's \w on the characters used here: letters, digits, underscore
WordChars ==
    {UpperLetters[i] : i \in 1..26} \cup {LowerLetters[i] : i \in 1..26}
    \cup {DigitChars[i] : i \in 1..10} \cup {"_"}

\* str.lower on one character
LowerChar(c) ==
    IF \E i \in 1..26 : UpperLetters[i] = c
    THEN LowerLetters[CHOOSE i \in 1..26 : UpperLetters[i] = c]
    ELSE c

\* str.lower
Lower(s) == [i \in 1..Len(s) |-> LowerChar(s[i])]

RECURSIVE LStrip(_)
LStrip(s) ==
    IF s # << >> /\ Head(s) \in Whitespace THEN LStrip(Tail(s)) ELSE s

RECURSIVE RStrip(_)
RStrip(s) ==
    IF s # << >> /\ s[Len(s)] \in Whitespace
    THEN RStrip(SubSeq(s, 1, Len(s) - 1))
    ELSE s

\* Strip that takes off spaces only
StripSpacesOnly(s) ==
    IF \A i \in 1..Len(s) : s[i] = " " THEN << >> ELSE s

\* str.strip
Strip(s) == RStrip(LStrip(s))

\* sep.join(parts)
RECURSIVE Join(_, _)
Join(sep, parts) ==
    IF parts = << >> THEN << >>
    ELSE IF Len(parts) = 1 THEN parts[1]
    ELSE parts[1] \o sep \o Join(sep, Tail(parts))

\* str(n) of a natural number
RECURSIVE IntStr(_)
IntStr(n) ==
    IF n < 10 THEN <<DigitChars[n + 1]>>
    ELSE IntStr(n \div 10) \o <<DigitChars[(n % 10) + 1]>>

\* part occurs in s (used by the properties below)
Contains(s, part) ==
    \E i \in 0..(Len(s) - Len(part)) : SubSeq(s, i + 1, i + Len(part)) = part

\* ------------------------------------------------- constants of the code

\* the replacement field {tools} of the template, one element
Placeholder == "{tools}"

SYSTEM_PROMPT ==
    <<"Y","o","u"," ","a","r","e"," ","a"," ","h","e","l","p","f","u","l"," ",
      "a","s","s","i","s","t","a","n","t"," ","t","h","a","t"," ","r","u","n",
      "s"," ","l","o","c","a","l","l","y"," ","o","n"," ","t","h","e"," ","u",
      "s","e","r","'","s"," ","m","a","c","h","i","n","e","."," ","\n","Y",
      "o","u"," ","h","a","v","e"," ","a","c","c","e","s","s"," ","t","o"," ",
      "t","o","o","l","s"," ","t","h","a","t"," ","c","a","n"," ","r","e","t",
      "r","i","e","v","e"," ","i","n","f","o","r","m","a","t","i","o","n"," ",
      "a","b","o","u","t"," ","t","h","e"," ","s","y","s","t","e","m"," ","y",
      "o","u","'","r","e"," ","r","u","n","n","i","n","g"," ","o","n",".",
      "\n","\n","A","v","a","i","l","a","b","l","e"," ","t","o","o","l","s",
      ":","\n">>
    \o <<Placeholder>> \o
    <<"\n","\n","W","h","e","n"," ","t","h","e"," ","u","s","e","r"," ","a",
      "s","k","s"," ","a","b","o","u","t"," ","s","y","s","t","e","m"," ","i",
      "n","f","o","r","m","a","t","i","o","n",","," ","u","s","e"," ","t","h",
      "e"," ","a","p","p","r","o","p","r","i","a","t","e"," ","t","o","o","l",
      " ","b","y"," ","r","e","s","p","o","n","d","i","n","g"," ","w","i","t",
      "h",":","\n","[","T","O","O","L",":"," ","t","o","o","l","_","n","a",
      "m","e","]","\n","\n","F","o","r"," ","e","x","a","m","p","l","e",":",
      "\n","-"," ","I","f"," ","a","s","k","e","d"," ","a","b","o","u","t",
      " ","C","P","U"," ","u","s","a","g","e",","," ","r","e","s","p","o","n",
      "d"," ","w","i","t","h"," ","[","T","O","O","L",":"," ","g","e","t","_",
      "c","p","u","_","i","n","f","o","]","\n","-"," ","I","f"," ","a","s",
      "k","e","d"," ","a","b","o","u","t"," ","m","e","m","o","r","y","/","R",
      "A","M",","," ","r","e","s","p","o","n","d"," ","w","i","t","h"," ","[",
      "T","O","O","L",":"," ","g","e","t","_","m","e","m","o","r","y","_","i",
      "n","f","o","]","\n","-"," ","I","f"," ","a","s","k","e","d"," ","a",
      "b","o","u","t"," ","d","i","s","k"," ","s","p","a","c","e",","," ","r",
      "e","s","p","o","n","d"," ","w","i","t","h"," ","[","T","O","O","L",":",
      " ","g","e","t","_","d","i","s","k","_","i","n","f","o","]","\n","-",
      " ","I","f"," ","a","s","k","e","d"," ","a","b","o","u","t"," ","n","e",
      "t","w","o","r","k",","," ","r","e","s","p","o","n","d"," ","w","i","t",
      "h"," ","[","T","O","O","L",":"," ","g","e","t","_","n","e","t","w","o",
      "r","k","_","i","n","f","o","]","\n","-"," ","I","f"," ","a","s","k",
      "e","d"," ","a","b","o","u","t"," ","r","u","n","n","i","n","g"," ","p",
      "r","o","c","e","s","s","e","s",","," ","r","e","s","p","o","n","d"," ",
      "w","i","t","h"," ","[","T","O","O","L",":"," ","g","e","t","_","p","r",
      "o","c","e","s","s","_","i","n","f","o","]","\n","-"," ","I","f"," ",
      "a","s","k","e","d"," ","a","b","o","u","t"," ","b","a","t","t","e","r",
      "y",","," ","r","e","s","p","o","n","d"," ","w","i","t","h"," ","[","T",
      "O","O","L",":"," ","g","e","t","_","b","a","t","t","e","r","y","_","i",
      "n","f","o","]","\n","-"," ","I","f"," ","a","s","k","e","d"," ","a",
      "b","o","u","t"," ","u","p","t","i","m","e"," ","o","r"," ","b","o","o",
      "t"," ","t","i","m","e",","," ","r","e","s","p","o","n","d"," ","w","i",
      "t","h"," ","[","T","O","O","L",":"," ","g","e","t","_","u","p","t","i",
      "m","e","]","\n","-"," ","I","f"," ","a","s","k","e","d"," ","a","b",
      "o","u","t"," ","g","e","n","e","r","a","l"," ","s","y","s","t","e","m",
      " ","i","n","f","o"," ","(","O","S",","," ","h","o","s","t","n","a","m",
      "e",")",","," ","r","e","s","p","o","n","d"," ","w","i","t","h"," ","[",
      "T","O","O","L",":"," ","g","e","t","_","s","y","s","t","e","m","_","i",
      "n","f","o","]","\n","\n","A","f","t","e","r"," ","r","e","c","e","i",
      "v","i","n","g"," ","t","o","o","l"," ","r","e","s","u","l","t","s",",",
      " ","e","x","p","l","a","i","n"," ","t","h","e","m"," ","t","o"," ","t",
      "h","e"," ","u","s","e","r"," ","i","n"," ","a"," ","f","r","i","e","n",
      "d","l","y",","," ","c","l","e","a","r"," ","w","a","y",".","\n","Y",
      "o","u"," ","c","a","n"," ","u","s","e"," ","m","u","l","t","i","p","l",
      "e"," ","t","o","o","l","s"," ","i","f"," ","n","e","e","d","e","d"," ",
      "t","o"," ","a","n","s","w","e","r"," ","c","o","m","p","l","e","x"," ",
      "q","u","e","s","t","i","o","n","s",".","\n">>

TOOLS == <<
    [name |->
        <<"g","e","t","_","s","y","s","t","e","m","_","i","n","f","o">>,
     function |-> "get_system_info",
     description |->
        <<"G","e","t"," ","b","a","s","i","c"," ","s","y","s","t","e","m"," ",
          "i","n","f","o","r","m","a","t","i","o","n"," ","l","i","k","e"," ",
          "O","S",","," ","h","o","s","t","n","a","m","e",","," ","a","n","d",
          " ","p","r","o","c","e","s","s","o","r">>],
    [name |->
        <<"g","e","t","_","c","p","u","_","i","n","f","o">>,
     function |-> "get_cpu_info",
     description |->
        <<"G","e","t"," ","C","P","U"," ","u","s","a","g","e",","," ","c","o",
          "r","e"," ","c","o","u","n","t",","," ","a","n","d"," ","f","r","e",
          "q","u","e","n","c","y"," ","i","n","f","o","r","m","a","t","i","o",
          "n">>],
    [name |->
        <<"g","e","t","_","m","e","m","o","r","y","_","i","n","f","o">>,
     function |-> "get_memory_info",
     description |->
        <<"G","e","t"," ","R","A","M"," ","a","n","d"," ","s","w","a","p"," ",
          "m","e","m","o","r","y"," ","u","s","a","g","e">>],
    [name |->
        <<"g","e","t","_","d","i","s","k","_","i","n","f","o">>,
     function |-> "get_disk_info",
     description |->
        <<"G","e","t"," ","d","i","s","k"," ","p","a","r","t","i","t","i","o",
          "n"," ","a","n","d"," ","s","t","o","r","a","g","e"," ","u","s","a",
          "g","e"," ","i","n","f","o","r","m","a","t","i","o","n">>],
    [name |->
        <<"g","e","t","_","n","e","t","w","o","r","k","_","i","n","f","o">>,
     function |-> "get_network_info",
     description |->
        <<"G","e","t"," ","n","e","t","w","o","r","k"," ","i","n","t","e","r",
          "f","a","c","e","s",","," ","I","P"," ","a","d","d","r","e","s","s",
          "e","s",","," ","a","n","d"," ","d","a","t","a"," ","t","r","a","n",
          "s","f","e","r"," ","s","t","a","t","s">>],
    [name |->
        <<"g","e","t","_","p","r","o","c","e","s","s","_","i","n","f","o">>,
     function |-> "get_process_info",
     description |->
        <<"G","e","t"," ","t","o","p"," ","p","r","o","c","e","s","s","e","s",
          " ","b","y"," ","m","e","m","o","r","y"," ","u","s","a","g","e">>],
    [name |->
        <<"g","e","t","_","b","a","t","t","e","r","y","_","i","n","f","o">>,
     function |-> "get_battery_info",
     description |->
        <<"G","e","t"," ","b","a","t","t","e","r","y"," ","s","t","a","t","u",
          "s"," ","a","n","d"," ","c","h","a","r","g","e"," ","l","e","v","e",
          "l"," ","(","f","o","r"," ","l","a","p","t","o","p","s",")">>],
    [name |->
        <<"g","e","t","_","u","p","t","i","m","e">>,
     function |-> "get_uptime",
     description |->
        <<"G","e","t"," ","s","y","s","t","e","m"," ","b","o","o","t"," ","t",
          "i","m","e"," ","a","n","d"," ","u","p","t","i","m","e"," ","d","u",
          "r","a","t","i","o","n">>]
    >>

\* str.format(tools=...) on a template with one replacement field, {tools}
Format(template, tools) ==
    LET at == CHOOSE i \in 1..Len(template) : template[i] = Placeholder
    IN  SubSeq(template, 1, at - 1) \o tools
        \o SubSeq(template, at + 1, Len(template))

\* `name in TOOLS`
InRegistry(tool_name) == \E i \in 1..Len(TOOLS) : TOOLS[i].name = tool_name

\* format_tool_descriptions over an iteration that runs backwards
format_tool_descriptions_reversed ==
    Join(<<"\n">>,
         [i \in 1..Len(TOOLS) |->
            <<"-", " ">> \o TOOLS[Len(TOOLS) + 1 - i].name \o <<":", " ">>
            \o TOOLS[Len(TOOLS) + 1 - i].description])

format_tool_descriptions ==
    Join(<<"\n">>,
         [i \in 1..Len(TOOLS) |->
            <<"-", " ">> \o TOOLS[i].name \o <<":", " ">> \o TOOLS[i].description])

\* the system turn both ollama.chat calls put first
SystemTurn ==
    [role |-> "system", content |-> Format(SYSTEM_PROMPT, format_tool_descriptions)]

\* ---------------------------------------------------------------- scanner

\* first index >= i of s whose character is not in set (Len(s) + 1 if none)
RECURSIVE SkipWhile(_, _, _)
SkipWhile(s, i, set) ==
    IF i <= Len(s) /\ s[i] \in set THEN SkipWhile(s, i + 1, set) ELSE i

TagOpen == <<"[", "T", "O", "O", "L", ":">>

\* MatchAt compiled with re.IGNORECASE: the keyword matches in any case
MatchAtIgnoreCase(s, i) ==
    LET a == SkipWhile(s, i + Len(TagOpen), Whitespace)
        b == SkipWhile(s, a, WordChars)
    IN  IF /\ i + Len(TagOpen) - 1 <= Len(s)
           /\ Lower(SubSeq(s, i, i + Len(TagOpen) - 1)) = Lower(TagOpen)
           /\ b > a
           /\ b <= Len(s)
           /\ s[b] = "]"
        THEN [ok |-> TRUE, name |-> SubSeq(s, a, b - 1), last |-> b]
        ELSE [ok |-> FALSE, name |-> << >>, last |-> i]

\* the regular expression \[TOOL:\s*(\w+)\] tried at index i of s:
\* [ok, name, last]; \s* and \w+ are greedy and share no character
MatchAt(s, i) ==
    LET a == SkipWhile(s, i + Len(TagOpen), Whitespace)
        b == SkipWhile(s, a, WordChars)
    IN  IF /\ i + Len(TagOpen) - 1 <= Len(s)
           /\ SubSeq(s, i, i + Len(TagOpen) - 1) = TagOpen
           /\ b > a
           /\ b <= Len(s)
           /\ s[b] = "]"
        THEN [ok |-> TRUE, name |-> SubSeq(s, a, b - 1), last |-> b]
        ELSE [ok |-> FALSE, name |-> << >>, last |-> i]

\* re.findall from index i: leftmost match, then on from its end
RECURSIVE FindAll(_, _)
FindAll(s, i) ==
    IF i > Len(s) THEN << >>
    ELSE LET m == MatchAt(s, i)
         IN  IF m.ok THEN <<m.name>> \o FindAll(s, m.last + 1)
             ELSE FindAll(s, i + 1)

\* extract_tool_calls that keeps the names of the registry only
extract_registered_tool_calls(response) ==
    SelectSeq(FindAll(response, 1), InRegistry)

extract_tool_calls(response) == FindAll(response, 1)

\* ------------------------------------------------------------- dispatcher

\* the text of line 68 before the name
ErrorPrefix ==
    <<"E","r","r","o","r"," ","e","x","e","c","u","t","i","n","g"," ">>

\* the text of line 69 before the name
UnknownPrefix ==
    <<"U","n","k","n","o","w","n"," ","t","o","o","l",":"," ">>

\* the text of line 98 before the name
ResultsPrefix ==
    <<"R","e","s","u","l","t","s"," ","f","r","o","m"," ">>

\* the text of line 103 before the results
ContextHead ==
    <<"H","e","r","e"," ","a","r","e"," ","t","h","e"," ","t","o","o","l"," ",
      "r","e","s","u","l","t","s",":","\n","\n">>

\* the text of line 103 after the results
ContextTail ==
    <<"\n","\n","P","l","e","a","s","e"," ","e","x","p","l","a","i","n"," ",
      "t","h","e","s","e"," ","r","e","s","u","l","t","s"," ","t","o"," ","m",
      "e"," ","i","n"," ","a"," ","f","r","i","e","n","d","l","y",","," ","e",
      "a","s","y","-","t","o","-","u","n","d","e","r","s","t","a","n","d"," ",
      "w","a","y",".">>

\* json.dumps(result, indent=2) of a flat dict of natural numbers, given as
\* the sequence of its [key, value] items
json_dumps(result) ==
    IF result = << >> THEN <<"{", "}">>
    ELSE <<"{", "\n">>
         \o Join(<<",", "\n">>,
                 [i \in 1..Len(result) |->
                    <<" ", " ", "\"">> \o result[i].key \o <<"\"", ":", " ">>
                    \o IntStr(result[i].value)])
         \o <<"\n", "}">>

\* what a call TOOLS[name]["function"]() can do: return a dict, or raise an
\* Exception whose str() is msg
ToolOutcomes ==
    { [raises |-> FALSE,
       result |-> <<[key |-> <<"n">>, value |-> 12]>>,
       msg |-> << >>],
      [raises |-> TRUE,
       result |-> << >>,
       msg |-> <<"b","o","o","m">>] }

\* the outcome recorded for a dispatch that calls no tool function
NotCalled == [raises |-> FALSE, result |-> << >>, msg |-> << >>]

\* execute_tool without the try/except of lines 64-68: the exception of the
\* tool function leaves execute_tool
execute_tool_uncaught(tool_name, outcome) ==
    IF InRegistry(tool_name)
    THEN IF ~outcome.raises
         THEN [raised |-> FALSE, called |-> TRUE,
               value |-> json_dumps(outcome.result)]
         ELSE [raised |-> TRUE, called |-> TRUE, value |-> outcome.msg]
    ELSE [raised |-> FALSE, called |-> FALSE,
          value |-> UnknownPrefix \o tool_name]

\* execute_tool without the test of line 63: TOOLS[tool_name] raises a
\* KeyError, whose str() is the quoted name, inside the try of line 64
execute_tool_unchecked(tool_name, outcome) ==
    IF InRegistry(tool_name)
    THEN IF ~outcome.raises
         THEN [raised |-> FALSE, called |-> TRUE,
               value |-> json_dumps(outcome.result)]
         ELSE [raised |-> FALSE, called |-> TRUE,
               value |-> ErrorPrefix \o tool_name \o <<":", " ">> \o outcome.msg]
    ELSE [raised |-> TRUE, called |-> FALSE,
          value |-> <<"'">> \o tool_name \o <<"'">>]

\* execute_tool(tool_name) when the tool function, if called, does outcome:
\* value is the string returned (or the message of the exception that leaves
\* execute_tool when raised), called whether the tool function was called
execute_tool(tool_name, outcome) ==
    IF InRegistry(tool_name)
    THEN IF ~outcome.raises
         THEN [raised |-> FALSE, called |-> TRUE,
               value |-> json_dumps(outcome.result)]
         ELSE [raised |-> FALSE, called |-> TRUE,
               value |-> ErrorPrefix \o tool_name \o <<":", " ">> \o outcome.msg]
    ELSE [raised |-> FALSE, called |-> FALSE,
          value |-> UnknownPrefix \o tool_name]

\* ------------------------------------------------------------------- chat

\* line 76
UserTurn(user_message) == [role |-> "user", content |-> user_message]

\* AssistantTurn that takes the opening brackets of the markers out
AssistantTurnStripped(message) ==
    [role |-> "assistant",
     content |-> SelectSeq(message, LAMBDA c : c # "[")]

\* AssistantTurn with the role of line 103 copied
AssistantTurnWrongRole(message) == [role |-> "user", content |-> message]

\* lines 102 and 115
AssistantTurn(message) == [role |-> "assistant", content |-> message]

\* Messages that sends the newest turn only
MessagesLastOnly(h) == <<SystemTurn, h[Len(h)]>>

\* lines 81-84 and 107-110: the `messages` argument of ollama.chat
Messages(h) == <<SystemTurn>> \o h

\* line 98
ToolResult(tool_name, result) ==
    ResultsPrefix \o tool_name \o <<":", "\n">> \o result

\* ToolResultsTurn sent under a role of its own
ToolResultsTurnAsTool(results) ==
    [role |-> "tool",
     content |-> ContextHead \o Join(<<"\n", "\n">>, results) \o ContextTail]

\* lines 101 and 103: the synthetic user turn
ToolResultsTurn(results) ==
    [role |-> "user",
     content |-> ContextHead \o Join(<<"\n", "\n">>, results) \o ContextTail]

\* Remaining of a loop that is left after its first pass
RemainingFirstOnly(calls, results) ==
    IF results = << >> THEN <<calls[1]>> ELSE << >>

\* Remaining of a loop that skips a name it has already run
RemainingSkipDuplicates(calls, results) ==
    SelectSeq(SubSeq(calls, Len(results) + 1, Len(calls)),
              LAMBDA n : \A k \in 1..Len(results) : calls[k] # n)

\* line 95: the names the for loop has still to visit
Remaining(calls, results) == SubSeq(calls, Len(results) + 1, Len(calls))

\* WithToolTurns with lines 102 and 103 exchanged
WithToolTurnsSwapped(h, message, results) ==
    h \o <<[role |-> "user",
            content |-> ContextHead \o Join(<<"\n", "\n">>, results) \o ContextTail],
           [role |-> "assistant", content |-> message]>>

\* lines 102-103: history after the tool loop
WithToolTurns(h, message, results) ==
    h \o <<AssistantTurn(message), ToolResultsTurn(results)>>

\* line 149: the reserved inputs
ReservedInputs == { <<"q","u","i","t">>, <<"e","x","i","t">>, <<"q">> }

\* what Prompt.ask can return
UserInputs ==
    { <<"h","i">>, <<"q">>, <<"Q","u","i","t">>, <<"e","x","i","t">>,
      << >>, <<" ", "\t">> }

\* what ollama.chat can return as response["message"]["content"]
Replies ==
    { <<"o","k"," ","[","t","o","o","l",":"," ","g","e","t","_","c","p","u","_",
        "i","n","f","o","]">>,
      <<"[","T","O","O","L",":"," ","g","e","t","_","c","p","u","_","i","n",
        "f","o","]">>,
      <<"[","T","O","O","L",":","g","e","t","_","u","p","t","i","m","e","]",
        "[","T","O","O","L",":"," ","n","o","p","e","]"," ","[","T","O","O",
        "L",":","g","e","t","_","u","p","t","i","m","e","]">> }

\* str(e) of the exception a failing ollama.chat raises
BackendErrors == { <<"d","o","w","n">> }

\* turn before the first chat call. status is "none", then where chat stands
\* ("call1", "tools", "call2") or how it ended ("replied", "explained",
\* "failed1", "failed2", "raised"); hist, disp, inv, errs are the
\* lengths of history, dispatched, invoked, errors at entry;
\* message is chat's argument and first the first reply
NoTurn == [status |-> "none", hist |-> 0, disp |-> 0, inv |-> 0,
           errs |-> 0, message |-> << >>, first |-> << >>]

Init ==
    /\ pc = "prompt"
    /\ history = << >>
    /\ assistant_message = << >>
    /\ tool_calls = << >>
    /\ tool_results = << >>
    /\ requests = << >>
    /\ dispatched = << >>
    /\ invoked = << >>
    /\ shown = << >>
    /\ errors = << >>
    /\ turn = NoTurn
    /\ turns = 0
    /\ ended_by = "none"
    /\ text = << >>
    /\ found = << >>

\* lines 147-151: a reserved input ends the loop
AskQuit(user_input) ==
    /\ pc = "prompt"
    /\ Lower(user_input) \in ReservedInputs
    /\ pc' = "ended"
    /\ ended_by' = "quit"
    /\ UNCHANGED <<history, assistant_message, tool_calls, tool_results,
                   requests, dispatched, invoked, shown, errors, turn, turns,
                   text, found>>

\* lines 147-154: a blank input is skipped
AskBlank(user_input) ==
    /\ pc = "prompt"
    /\ Lower(user_input) \notin ReservedInputs
    /\ Strip(user_input) = << >>
    /\ UNCHANGED vars

\* lines 147-157 and 76-85: chat is entered, the user turn appended and the
\* first request sent
AskChat(user_input) ==
    /\ pc = "prompt"
    /\ Lower(user_input) \notin ReservedInputs
    /\ Strip(user_input) # << >>
    /\ turns < MaxTurns
    /\ history' = Append(history, UserTurn(user_input))
    /\ requests' = <<Messages(history')>>
    /\ turn' = [status |-> "call1", hist |-> Len(history),
                disp |-> Len(dispatched),
                inv |-> Len(invoked), errs |-> Len(errors),
                message |-> user_input, first |-> << >>]
    /\ turns' = turns + 1
    /\ pc' = "call1"
    /\ UNCHANGED <<assistant_message, tool_calls, tool_results, dispatched,
                   invoked, shown, errors, text, found, ended_by>>

\* lines 87-92 and 115-116, 159-160: the first reply arrives; without tool
\* calls it is appended and returned, with tool calls the loop starts
FirstReply(reply) ==
    /\ pc = "call1"
    /\ LET calls == extract_tool_calls(reply)
       IN  IF calls = << >>
           THEN /\ history' = Append(history, AssistantTurn(reply))
                /\ shown' = Append(shown, reply)
                /\ turn' = [turn EXCEPT !.status = "replied", !.first = reply]
                /\ pc' = "prompt"
                /\ UNCHANGED <<assistant_message, tool_calls, tool_results>>
           ELSE /\ assistant_message' = reply
                /\ tool_calls' = calls
                /\ tool_results' = << >>
                /\ turn' = [turn EXCEPT !.status = "tools", !.first = reply]
                /\ pc' = "tools"
                /\ UNCHANGED <<history, shown>>
    /\ UNCHANGED <<requests, dispatched, invoked, errors, turns, text, found, ended_by>>

\* FirstFail that sends the failed request once more
FirstFailRetry(err) ==
    /\ pc = "call1"
    /\ Len(requests) < 2
    /\ requests' = Append(requests, requests[1])
    /\ UNCHANGED <<pc, history, assistant_message, tool_calls, tool_results,
                   dispatched, invoked, shown, errors, turn, turns, text, found, ended_by>>

\* FirstFail that takes the user turn of the failed call back out of history
FirstFailRollback(err) ==
    /\ pc = "call1"
    /\ errors' = Append(errors, err)
    /\ history' = SubSeq(history, 1, turn.hist)
    /\ turn' = [turn EXCEPT !.status = "failed1"]
    /\ pc' = "prompt"
    /\ UNCHANGED <<assistant_message, tool_calls, tool_results,
                   requests, dispatched, invoked, shown, turns, text, found, ended_by>>

\* lines 79-85 raise, lines 165-166 report: the turn is given up
FirstFail(err) ==
    /\ pc = "call1"
    /\ errors' = Append(errors, err)
    /\ turn' = [turn EXCEPT !.status = "failed1"]
    /\ pc' = "prompt"
    /\ UNCHANGED <<history, assistant_message, tool_calls, tool_results,
                   requests, dispatched, invoked, shown, turns, text, found, ended_by>>

\* lines 95-98: one pass of the tool loop; after the last pass lines 101-111
\* append the two turns and send the second request. An exception leaving
\* execute_tool would leave chat too and be reported by lines 165-166.
RunTool(outcome) ==
    /\ pc = "tools"
    /\ LET tool_name == Head(Remaining(tool_calls, tool_results))
           r == execute_tool(tool_name, outcome)
           results == Append(tool_results, ToolResult(tool_name, r.value))
       IN  /\ dispatched' = Append(dispatched,
                [name |-> tool_name, called |-> r.called,
                 outcome |-> IF r.called THEN outcome ELSE NotCalled,
                 value |-> r.value, raised |-> r.raised])
           /\ invoked' = IF r.called THEN Append(invoked, tool_name) ELSE invoked
           /\ IF r.raised
              THEN /\ errors' = Append(errors, r.value)
                   /\ turn' = [turn EXCEPT !.status = "raised"]
                   /\ pc' = "prompt"
                   /\ assistant_message' = << >>
                   /\ tool_calls' = << >>
                   /\ tool_results' = << >>
                   /\ UNCHANGED <<history, requests>>
              ELSE IF Remaining(tool_calls, results) # << >>
              THEN /\ tool_results' = results
                   /\ UNCHANGED <<pc, history, requests, errors, turn,
                                  assistant_message, tool_calls>>
              ELSE /\ tool_results' = results
                   /\ history' = WithToolTurns(history, assistant_message, results)
                   /\ requests' = Append(requests, Messages(history'))
                   /\ turn' = [turn EXCEPT !.status = "call2"]
                   /\ pc' = "call2"
                   /\ UNCHANGED <<errors, assistant_message, tool_calls>>
    /\ UNCHANGED <<shown, turns, text, found, ended_by>>

\* SecondReply that scans the second reply too and runs its tools
SecondReplyRescan(reply) ==
    /\ pc = "call2"
    /\ IF extract_tool_calls(reply) = << >>
       THEN /\ history' = Append(history, AssistantTurn(reply))
            /\ shown' = Append(shown, reply)
            /\ turn' = [turn EXCEPT !.status = "explained"]
            /\ pc' = "prompt"
            /\ assistant_message' = << >>
            /\ tool_calls' = << >>
            /\ tool_results' = << >>
       ELSE /\ assistant_message' = reply
            /\ tool_calls' = extract_tool_calls(reply)
            /\ tool_results' = << >>
            /\ turn' = [turn EXCEPT !.status = "tools"]
            /\ pc' = "tools"
            /\ UNCHANGED <<history, shown>>
    /\ UNCHANGED <<requests, dispatched, invoked, errors, turns, text, found, ended_by>>

\* lines 113-116 and 159-160: the second reply is appended and returned
SecondReply(reply) ==
    /\ pc = "call2"
    /\ history' = Append(history, AssistantTurn(reply))
    /\ shown' = Append(shown, reply)
    /\ turn' = [turn EXCEPT !.status = "explained"]
    /\ pc' = "prompt"
    /\ assistant_message' = << >>
    /\ tool_calls' = << >>
    /\ tool_results' = << >>
    /\ UNCHANGED <<requests, dispatched, invoked, errors, turns, text, found, ended_by>>

\* SecondFail that takes the turns of the failed turn back out of history
SecondFailRollback(err) ==
    /\ pc = "call2"
    /\ errors' = Append(errors, err)
    /\ history' = SubSeq(history, 1, turn.hist)
    /\ turn' = [turn EXCEPT !.status = "failed2"]
    /\ pc' = "prompt"
    /\ assistant_message' = << >>
    /\ tool_calls' = << >>
    /\ tool_results' = << >>
    /\ UNCHANGED <<requests, dispatched, invoked, shown, turns,
                   text, found, ended_by>>

\* lines 105-111 raise, lines 165-166 report: the turn is given up
SecondFail(err) ==
    /\ pc = "call2"
    /\ errors' = Append(errors, err)
    /\ turn' = [turn EXCEPT !.status = "failed2"]
    /\ pc' = "prompt"
    /\ assistant_message' = << >>
    /\ tool_calls' = << >>
    /\ tool_results' = << >>
    /\ UNCHANGED <<history, requests, dispatched, invoked, shown, turns,
                   text, found, ended_by>>

\* Interrupt that is taken at Prompt.ask only
InterruptAtPrompt ==
    /\ pc = "prompt"
    /\ pc' = "ended"
    /\ ended_by' = "interrupt"
    /\ UNCHANGED <<history, assistant_message, tool_calls, tool_results,
                   requests, dispatched, invoked, shown, errors, turn, turns,
                   text, found>>

\* lines 162-164: a KeyboardInterrupt, wherever it is raised inside the try
\* block (it is no Exception, so line 67 does not catch it), ends the loop
Interrupt ==
    /\ pc \in {"prompt", "call1", "tools", "call2"}
    /\ pc' = "ended"
    /\ ended_by' = "interrupt"
    /\ UNCHANGED <<history, assistant_message, tool_calls, tool_results,
                   requests, dispatched, invoked, shown, errors, turn, turns,
                   text, found>>

Next ==
    \/ \E user_input \in UserInputs : AskQuit(user_input)
    \/ \E user_input \in UserInputs : AskBlank(user_input)
    \/ \E user_input \in UserInputs : AskChat(user_input)
    \/ \E reply \in Replies : FirstReply(reply)
    \/ \E err \in BackendErrors : FirstFail(err)
    \/ \E outcome \in ToolOutcomes : RunTool(outcome)
    \/ \E reply \in Replies : SecondReply(reply)
    \/ \E err \in BackendErrors : SecondFail(err)
    \/ Interrupt

Spec == Init /\ [][Next]_vars

\* ------------------------------------- sessions with unknown tool names

\* first replies whose markers name tools that are not in TOOLS: an unknown
\* name alone, and a registry name in another case before the registry name
UnknownReplies ==
    { <<"[","T","O","O","L",":"," ","n","o","p","e","]">>,
      <<"[","T","O","O","L",":"," ","G","e","t","_","C","P","U","_","I","n",
        "f","o","]"," ","[","T","O","O","L",":"," ","g","e","t","_","c","p",
        "u","_","i","n","f","o","]">> }

UnknownNext ==
    \/ \E user_input \in UserInputs : AskQuit(user_input)
    \/ \E user_input \in UserInputs : AskBlank(user_input)
    \/ \E user_input \in UserInputs : AskChat(user_input)
    \/ \E reply \in UnknownReplies : FirstReply(reply)
    \/ \E err \in BackendErrors : FirstFail(err)
    \/ \E outcome \in ToolOutcomes : RunTool(outcome)
    \/ \E reply \in Replies : SecondReply(reply)
    \/ \E err \in BackendErrors : SecondFail(err)
    \/ Interrupt

UnknownSpec == Init /\ [][UnknownNext]_vars

\* ------------------------------------------------ scanner specification

\* pieces of model output: whole markers, broken markers and their parts
Fragments ==
    { <<"[","T","O","O","L",":"," ","g","e","t","_","c","p","u","_","i","n",
        "f","o","]">>,
      <<"[","T","O","O","L",":","g","e","t","_","m","e","m","o","r","y","_",
        "i","n","f","o","]">>,
      <<"[","t","o","o","l",":"," ","g","e","t","_","c","p","u","_","i","n",
        "f","o","]">>,
      <<"[","T","O","O","L",":">>,
      <<"T","O","O","L">>,
      <<"x","_","9">>,
      <<"-">>,
      <<" ">>,
      <<"\n">>,
      <<"[">>,
      <<"]">> }

\* the concatenations of at most n fragments
RECURSIVE TextsOf(_)
TextsOf(n) ==
    IF n = 0 THEN { << >> }
    ELSE LET shorter == TextsOf(n - 1)
         IN  shorter \cup { t \o f : t \in shorter, f \in Fragments }

ScanInit ==
    /\ pc = "scan"
    /\ text \in TextsOf(MaxFrags)
    /\ found = << >>
    /\ history = << >>
    /\ assistant_message = << >>
    /\ tool_calls = << >>
    /\ tool_results = << >>
    /\ requests = << >>
    /\ dispatched = << >>
    /\ invoked = << >>
    /\ shown = << >>
    /\ errors = << >>
    /\ turn = NoTurn
    /\ turns = 0
    /\ ended_by = "none"

\* lines 54-58: extract_tool_calls(text)
Scan ==
    /\ pc = "scan"
    /\ found' = extract_tool_calls(text)
    /\ pc' = "scanned"
    /\ UNCHANGED <<text, history, assistant_message, tool_calls, tool_results,
                   requests, dispatched, invoked, shown, errors, turn, turns,
                   ended_by>>

ScanNext == Scan

ScanSpec == ScanInit /\ [][ScanNext]_vars

\* ------------------------------------------------------------- properties

\* the marker grammar of the scanner's contract: s[i..j] is "[", "TOOL", ":",
\* optional whitespace, one or more word characters s[a..j-1], "]"
IsMarker(s, i, a, j) ==
    /\ s[i] = "["
    /\ s[j] = "]"
    /\ i + 6 <= a
    /\ a < j
    /\ <<s[i + 1], s[i + 2], s[i + 3], s[i + 4], s[i + 5]>>
         = <<"T", "O", "O", "L", ":">>
    /\ \A k \in (i + 6)..(a - 1) : s[k] \in Whitespace
    /\ \A k \in a..(j - 1) : s[k] \in WordChars

\* where the well-formed markers of s start
MarkerStarts(s) ==
    { i \in 1..Len(s) :
        /\ s[i] = "["
        /\ \E j \in (i + 7)..Len(s) :
              /\ s[j] = "]"
              /\ \E a \in (i + 6)..(j - 1) : IsMarker(s, i, a, j) }

\* the tool name of the well-formed marker starting at i
MarkerName(s, i) ==
    LET j == CHOOSE j \in (i + 7)..Len(s) :
                 \E a \in (i + 6)..(j - 1) : IsMarker(s, i, a, j)
        a == CHOOSE a \in (i + 6)..(j - 1) : IsMarker(s, i, a, j)
    IN  SubSeq(s, a, j - 1)

\* the names of the well-formed markers of s, left to right
MarkerNames(s) ==
    LET starts == MarkerStarts(s)
        nth(k) == CHOOSE i \in starts :
                     Cardinality({ h \in starts : h < i }) = k - 1
    IN  [k \in 1..Cardinality(starts) |-> MarkerName(s, nth(k))]

\* C10: the scanner returns exactly the names of the well-formed markers of
\* the text, left to right, duplicates kept; without a well-formed marker it
\* returns the empty sequence.
C10_ScannerReturnsMarkers ==
    pc = "scanned" =>
        /\ found = MarkerNames(text)
        /\ (MarkerStarts(text) = {} => found = << >>)

\* C10 witness: three markers, the first name twice, are returned in order
C10_Witness ==
    /\ pc = "scanned"
    /\ Len(found) = 3
    /\ found[1] = found[3]
    /\ found[1] # found[2]
    /\ found[1] = <<"g","e","t","_","c","p","u","_","i","n","f","o">>

\* a is a prefix of b
IsPrefix(a, b) == Len(a) <= Len(b) /\ SubSeq(b, 1, Len(a)) = a

\* the parts occur in s one after the other, without overlap, from index from on
RECURSIVE OccurInOrder(_, _, _)
OccurInOrder(s, parts, from) ==
    \/ parts = << >>
    \/ \E p \in from..(Len(s) - Len(Head(parts)) + 1) :
          /\ SubSeq(s, p, p + Len(Head(parts)) - 1) = Head(parts)
          /\ OccurInOrder(s, Tail(parts), p + Len(Head(parts)))

\* the dispatches of the current turn
TurnDispatches ==
    [k \in 1..(Len(dispatched) - turn.disp) |-> dispatched[turn.disp + k]]

\* the entry "Results from <name>:\n<value>" of a dispatch
EntryOf(d) ==
    <<"R","e","s","u","l","t","s"," ","f","r","o","m"," ">> \o d.name
    \o <<":", "\n">> \o d.value

\* C1: a turn whose first reply holds at least one marker and whose two
\* backend calls succeed makes exactly two backend calls and appends exactly
\* four turns: user (the message), assistant (the first reply), user (the
\* tool results, one entry per marker in extraction order), assistant (the
\* second reply).
C1_ToolTurnAppendsFour ==
    (turn.status \in {"replied", "explained"} /\ MarkerStarts(turn.first) # {}) =>
        /\ turn.status = "explained"
        /\ Len(requests) = 2
        /\ Len(history) = turn.hist + 4
        /\ history[turn.hist + 1] = [role |-> "user", content |-> turn.message]
        /\ history[turn.hist + 2] = [role |-> "assistant", content |-> turn.first]
        /\ history[turn.hist + 3].role = "user"
        /\ [k \in 1..Len(TurnDispatches) |-> TurnDispatches[k].name]
             = MarkerNames(turn.first)
        /\ OccurInOrder(history[turn.hist + 3].content,
                        [k \in 1..Len(TurnDispatches) |-> EntryOf(TurnDispatches[k])],
                        1)
        /\ history[turn.hist + 4]
             = [role |-> "assistant", content |-> shown[Len(shown)]]

\* C1 witness: the second turn of a session ran three tools and was explained
C1_Witness ==
    /\ turn.status = "explained"
    /\ turns = 2
    /\ turn.hist > 0
    /\ Len(MarkerNames(turn.first)) = 3
    /\ Len(history) = turn.hist + 4

\* C2: a turn whose first reply holds no well-formed marker makes exactly one
\* backend call, runs no tool and appends exactly two turns, the user turn
\* and an assistant turn holding the reply, which chat returns.
C2_PlainTurnAppendsTwo ==
    (turn.status \notin {"none", "call1", "failed1"} /\ MarkerStarts(turn.first) = {}) =>
        /\ turn.status = "replied"
        /\ Len(requests) = 1
        /\ Len(dispatched) = turn.disp
        /\ Len(invoked) = turn.inv
        /\ Len(history) = turn.hist + 2
        /\ history[turn.hist + 1] = [role |-> "user", content |-> turn.message]
        /\ history[turn.hist + 2] = [role |-> "assistant", content |-> turn.first]
        /\ shown # << >>
        /\ shown[Len(shown)] = turn.first

\* C2 witness: a reply holding only a lowercase marker was returned as it is
C2_Witness ==
    /\ turn.status = "replied"
    /\ pc = "prompt"
    /\ Contains(turn.first, <<"[","t","o","o","l",":">>)
    /\ Len(history) = turn.hist + 2
    /\ Len(requests) = 1

\* C3: history is append-only: every step leaves the former history as a
\* prefix of the new one.
C3_HistoryAppendOnly == [][IsPrefix(history, history')]_vars

\* C3 witness: a session with a failed backend call and a tool error went on
\* to a turn with tools
C3_Witness ==
    /\ errors # << >>
    /\ turn.status = "explained"
    /\ Len(history) >= 5
    /\ \E k \in 1..Len(dispatched) : dispatched[k].outcome.raises

\* the names of the registry
RegistryNames == { TOOLS[i].name : i \in 1..Len(TOOLS) }

\* C4: every backend call sends exactly one system turn, rendered from the
\* template and the registry, followed by the whole stored history in order;
\* history never holds a system turn.
C4_RequestIsSystemPlusHistory ==
    /\ \A k \in 1..Len(requests) :
          /\ requests[k][1]
               = [role |-> "system",
                  content |-> Format(SYSTEM_PROMPT, format_tool_descriptions)]
          /\ \A i \in 2..Len(requests[k]) : requests[k][i].role # "system"
          /\ IsPrefix(Tail(requests[k]), history)
    /\ (pc \in {"call1", "call2"} => Tail(requests[Len(requests)]) = history)
    /\ \A i \in 1..Len(history) : history[i].role \in {"user", "assistant"}

\* C4 witness: the second call of the second turn is under way, with the
\* turns of the first turn in its request
C4_Witness ==
    /\ pc = "call2"
    /\ turns = 2
    /\ turn.hist >= 2
    /\ Len(requests[2]) = Len(history) + 1

\* C5: the second backend call of a turn is not sent before every extracted
\* tool call has been dispatched and has returned, and before the first reply
\* and the tool-results turn are in history; while tools run, no call is sent.
C5_SecondCallAfterTools ==
    /\ (turn.status = "tools" =>
          /\ Len(requests) = 1
          /\ Len(TurnDispatches) < Len(MarkerNames(turn.first))
          /\ Len(history) = turn.hist + 1)
    /\ (Len(requests) = 2 =>
          /\ [k \in 1..Len(TurnDispatches) |-> TurnDispatches[k].name]
               = MarkerNames(turn.first)
          /\ \A k \in 1..Len(TurnDispatches) : ~TurnDispatches[k].raised
          /\ Len(requests[2]) = turn.hist + 4
          /\ requests[2][turn.hist + 3]
               = [role |-> "assistant", content |-> turn.first]
          /\ requests[2][turn.hist + 4].role = "user"
          /\ \A k \in 1..Len(TurnDispatches) :
                Contains(requests[2][turn.hist + 4].content, TurnDispatches[k].value)
          /\ history[turn.hist + 2] = requests[2][turn.hist + 3]
          /\ history[turn.hist + 3] = requests[2][turn.hist + 4])

\* C5 witness: the second call is under way after three dispatches
C5_Witness ==
    /\ pc = "call2"
    /\ Len(requests) = 2
    /\ Len(TurnDispatches) = 3

\* C6: the second reply is final: whatever it holds, no tool is dispatched
\* for it and no third backend call is made, so a turn makes at most two
\* backend calls and dispatches only the markers of its first reply.
C6_SecondReplyIsFinal ==
    /\ Len(requests) <= 2
    /\ Len(TurnDispatches) <= Len(MarkerNames(turn.first))
    /\ (pc = "tools" => Len(requests) = 1)
    /\ (turn.status = "explained" =>
          /\ pc \in {"prompt", "ended"}
          /\ Len(requests) = 2
          /\ Len(TurnDispatches) = Len(MarkerNames(turn.first))
          /\ history[Len(history)]
               = [role |-> "assistant", content |-> shown[Len(shown)]])

\* C6 witness: a second reply that holds a well-formed marker was returned
C6_Witness ==
    /\ turn.status = "explained"
    /\ pc = "prompt"
    /\ MarkerStarts(history[Len(history)].content) # {}
    /\ Len(TurnDispatches) = 1

\* C7: a dispatch whose tool function raises returns a string that holds the
\* tool name and the message; nothing is raised out of execute_tool or chat
\* (main reports backend errors only), and the string is in the tool-results
\* turn.
C7_ToolErrorContained ==
    /\ \A k \in 1..Len(dispatched) :
          (dispatched[k].called /\ dispatched[k].outcome.raises) =>
              /\ ~dispatched[k].raised
              /\ Contains(dispatched[k].value, dispatched[k].name)
              /\ Contains(dispatched[k].value, dispatched[k].outcome.msg)
    /\ turn.status # "raised"
    /\ \A k \in 1..Len(errors) : errors[k] \in BackendErrors
    /\ (Len(requests) = 2 =>
          \A k \in 1..Len(TurnDispatches) :
              Contains(history[turn.hist + 3].content, TurnDispatches[k].value))

\* C7 witness: a turn in which a tool function raised was explained
C7_Witness ==
    /\ turn.status = "explained"
    /\ \E k \in 1..Len(TurnDispatches) :
          /\ TurnDispatches[k].called
          /\ TurnDispatches[k].outcome.raises
          /\ Contains(history[turn.hist + 3].content, <<"b","o","o","m">>)

\* C8: a dispatch of a name that is not in the registry returns a string that
\* holds the name, raises nothing and calls no tool function.
C8_UnknownToolContained ==
    /\ \A k \in 1..Len(dispatched) :
          dispatched[k].name \notin RegistryNames =>
              /\ ~dispatched[k].raised
              /\ ~dispatched[k].called
              /\ Contains(dispatched[k].value, dispatched[k].name)
    /\ \A k \in 1..Len(invoked) : invoked[k] \in RegistryNames
    /\ Len(invoked)
         = Cardinality({ k \in 1..Len(dispatched) :
                           dispatched[k].name \in RegistryNames })

\* C8 witness: the name nope was dispatched and no tool function was called
C8_Witness ==
    /\ Len(dispatched) = 2
    /\ dispatched[2].name = <<"n","o","p","e">>
    /\ Len(invoked) = 1

\* C9: a failing backend call is tried once: the step that reports it sends
\* no further request, returns nothing, adds the error to those main reports
\* and goes back to the prompt; from there the next input is taken.
C9_BackendFailureReported ==
    /\ [][(\E err \in BackendErrors : FirstFail(err) \/ SecondFail(err)) =>
            /\ requests' = requests
            /\ Len(requests) = (IF pc = "call1" THEN 1 ELSE 2)
            /\ Len(errors') = Len(errors) + 1
            /\ errors'[Len(errors')] \in BackendErrors
            /\ shown' = shown
            /\ pc' = "prompt"]_vars
    /\ []((turn.status \in {"failed1", "failed2"} /\ pc = "prompt" /\ turns < MaxTurns)
            => ENABLED AskChat(<<"h","i">>))

\* C9 witness: after a turn whose backend call failed, a turn with tools was
\* explained
C9_Witness ==
    /\ turn.status = "explained"
    /\ turn.errs = 1
    /\ Len(errors) = 1
    /\ errors[1] \in BackendErrors
    /\ Len(history) = turn.hist + 4

\* the names dispatched in the current turn
TurnDispatchNames ==
    [k \in 1..Len(TurnDispatches) |-> TurnDispatches[k].name]

\* C11: a first reply with a marker naming a tool that is not in the registry
\* takes the tools path: the name is extracted and dispatched like any other,
\* its unknown-tool text is in the tool-results turn, the second call is made
\* and, when it succeeds, the turn ends with four turns appended.
C11_UnknownToolTakesToolsPath ==
    (/\ turn.status \notin {"none", "call1", "failed1"}
     /\ \E k \in 1..Len(MarkerNames(turn.first)) :
           MarkerNames(turn.first)[k] \notin RegistryNames) =>
        /\ turn.status \in {"tools", "call2", "explained", "failed2"}
        /\ IsPrefix(TurnDispatchNames, MarkerNames(turn.first))
        /\ (turn.status = "tools" => Len(requests) = 1)
        /\ (turn.status \in {"call2", "explained", "failed2"} =>
              /\ Len(requests) = 2
              /\ TurnDispatchNames = MarkerNames(turn.first)
              /\ \A k \in 1..Len(TurnDispatches) :
                    TurnDispatches[k].name \notin RegistryNames =>
                        Contains(history[turn.hist + 3].content,
                                 <<"U","n","k","n","o","w","n"," ","t","o","o","l",":"," ">>
                                 \o TurnDispatches[k].name))
        /\ (turn.status = "explained" => Len(history) = turn.hist + 4)

\* C11 witness: a turn whose only marker names the unknown tool nope was
\* explained
C11_Witness ==
    /\ turn.status = "explained"
    /\ MarkerNames(turn.first) = << <<"n","o","p","e">> >>
    /\ Len(history) = turn.hist + 4
    /\ invoked = << >>

\* C12 as stated: an interrupt never ends the session in the middle of a
\* turn, so a session ended by an interrupt has no chat call under way.
C12_InterruptOnlyAtPrompt ==
    (pc = "ended" /\ ended_by = "interrupt") =>
        turn.status \notin {"call1", "tools", "call2"}

\* C12 amended: an interrupt ends the session wherever it arrives, also during
\* a backend call or a tool execution; chat is then left where it stands,
\* history keeps the turns appended so far (the user turn until the tool loop
\* is over, then also the assistant and tool-results turns), and nothing runs
\* after the session has ended.
C12_InterruptEndsSessionAnywhere ==
    /\ [](pc \in {"prompt", "call1", "tools", "call2"} => ENABLED Interrupt)
    /\ []((pc = "ended" /\ ended_by = "interrupt") =>
            /\ (turn.status \in {"call1", "tools"} =>
                  /\ Len(history) = turn.hist + 1
                  /\ history[Len(history)]
                       = [role |-> "user", content |-> turn.message])
            /\ (turn.status = "call2" =>
                  /\ Len(history) = turn.hist + 3
                  /\ history[turn.hist + 2]
                       = [role |-> "assistant", content |-> turn.first]
                  /\ history[Len(history)].role = "user"))
    /\ [][/\ pc # "ended"
          /\ (pc' = "ended" =>
                /\ history' = history
                /\ requests' = requests
                /\ dispatched' = dispatched
                /\ invoked' = invoked)]_vars

\* C12 witness: an interrupt during the second tool execution ended the
\* session with the user turn as the last turn of history
C12_Witness ==
    /\ pc = "ended"
    /\ ended_by = "interrupt"
    /\ turn.status = "tools"
    /\ Len(TurnDispatches) = 1
    /\ history[Len(history)].role = "user"

\* C13: at the prompt the inputs quit, exit and q end the session and are
\* taken neither as blank nor as a message; the step that ends the session
\* sends no request and leaves history alone. A blank input (empty, or
\* whitespace only) is skipped: it is taken neither as reserved nor as a
\* message, and skipping it changes nothing and stays at the prompt.
C13_ReservedAndBlankInputs ==
    /\ [](pc = "prompt" =>
            /\ \A u \in { <<"q","u","i","t">>, <<"e","x","i","t">>, <<"q">> } :
                  /\ ENABLED AskQuit(u)
                  /\ ~ENABLED AskBlank(u)
                  /\ ~ENABLED AskChat(u)
            /\ \A u \in { << >>, <<" ", "\t">> } :
                  /\ ENABLED AskBlank(u)
                  /\ ~ENABLED AskQuit(u)
                  /\ ~ENABLED AskChat(u))
    /\ [][((\E u \in UserInputs : AskQuit(u)) =>
              /\ pc' = "ended"
              /\ history' = history
              /\ requests' = requests
              /\ dispatched' = dispatched
              /\ invoked' = invoked)
          /\ ((\E u \in UserInputs : AskBlank(u)) =>
              /\ pc' = "prompt"
              /\ history' = history
              /\ requests' = requests
              /\ dispatched' = dispatched
              /\ invoked' = invoked)]_vars

\* C13 witness: a reserved input ended a session after a turn with tools,
\* with that turn's two requests and four turns as they were
C13_Witness ==
    /\ pc = "ended"
    /\ ended_by = "quit"
    /\ turn.status = "explained"
    /\ Len(requests) = 2
    /\ Len(history) = turn.hist + 4

\* the line of tool i in the system prompt, with the line break before it
RegistryLine(i) ==
    <<"\n", "-", " ">> \o TOOLS[i].name \o <<":", " ">> \o TOOLS[i].description

\* C14: the system turn is the same on every backend call, within a turn and
\* from one turn to the next, and lists the tools of the registry, one line
\* each, in the order in which TOOLS holds them. (Nothing in the code assigns
\* to TOOLS or changes it, so the registry is a constant here.)
C14_SystemTurnStable ==
    /\ [](requests # << >> =>
            /\ \A k \in 1..Len(requests) : requests[k][1] = requests[1][1]
            /\ requests[1][1].role = "system"
            /\ \A i \in 1..Len(requests[1][1].content) :
                  requests[1][1].content[i] # "{tools}"
            /\ OccurInOrder(requests[1][1].content,
                            [i \in 1..Len(TOOLS) |-> RegistryLine(i)], 1))
    /\ [][(requests # << >> /\ requests' # << >>) =>
            requests'[1][1] = requests[1][1]]_vars

\* C14 witness: the second call of the second turn carries the system turn
\* of the first call
C14_Witness ==
    /\ pc = "call2"
    /\ turns = 2
    /\ Len(requests) = 2
    /\ requests[2][1] = requests[1][1]
    /\ Len(requests[2][1].content) > Len(SYSTEM_PROMPT)

\* where the text "Results from " starts in s
EntryStarts(s) ==
    { p \in 1..(Len(s) - 12) :
        /\ s[p] = "R"
        /\ SubSeq(s, p, p + 12)
             = <<"R","e","s","u","l","t","s"," ","f","r","o","m"," ">> }

\* the k-th smallest element of the set of numbers S
NthOf(S, k) == CHOOSE p \in S : Cardinality({ q \in S : q < p }) = k - 1

\* C16: the names extracted from the first reply are dispatched one by one
\* in extraction order, a repeated name again, whatever the earlier
\* dispatches returned; once the loop is over there are as many dispatches as
\* names, and the tool-results turn holds as many entries, the k-th being the
\* entry of the k-th name with the string its dispatch returned.
C16_OneDispatchPerName ==
    /\ IsPrefix(TurnDispatchNames, MarkerNames(turn.first))
    /\ (turn.status = "tools" =>
          Len(TurnDispatches) = Len(tool_results))
    /\ (Len(requests) = 2 =>
          LET content == history[turn.hist + 3].content
              starts == EntryStarts(content)
          IN  /\ TurnDispatchNames = MarkerNames(turn.first)
              /\ Len(TurnDispatches) >= 1
              /\ Cardinality(starts) = Len(TurnDispatches)
              /\ \A k \in 1..Len(TurnDispatches) :
                    LET entry == EntryOf(TurnDispatches[k])
                        p == NthOf(starts, k)
                    IN  SubSeq(content, p, p + Len(entry) - 1) = entry)

\* C16 witness: three dispatches, the first of a tool that raised, the second
\* of an unknown name, the third of the first name again, and three entries
C16_Witness ==
    /\ Len(requests) = 2
    /\ Len(TurnDispatches) = 3
    /\ TurnDispatches[1].outcome.raises
    /\ ~TurnDispatches[2].called
    /\ TurnDispatches[3].name = TurnDispatches[1].name
    /\ TurnDispatches[3].called
    /\ Cardinality(EntryStarts(history[turn.hist + 3].content)) = 3

\* C17: on the tools path the assistant turn after the user turn holds the
\* first reply as received, markers and all; the second request ends with
\* that turn and the tool-results turn; and what chat returns is the content
\* of the last turn of history, an assistant turn.
C17_FirstReplyKeptVerbatim ==
    /\ (Len(requests) = 2 =>
          LET sent == requests[2]
          IN  /\ history[turn.hist + 2]
                   = [role |-> "assistant", content |-> turn.first]
              /\ MarkerNames(history[turn.hist + 2].content) = TurnDispatchNames
              /\ sent[Len(sent) - 1] = history[turn.hist + 2]
              /\ sent[Len(sent)] = history[turn.hist + 3]
              /\ sent[Len(sent)].role = "user")
    /\ (turn.status \in {"replied", "explained"} =>
          /\ history[Len(history)].role = "assistant"
          /\ history[Len(history)].content = shown[Len(shown)])

\* C17 witness: a turn with tools was explained and its first assistant turn
\* still holds the marker
C17_Witness ==
    /\ turn.status = "explained"
    /\ Contains(history[turn.hist + 2].content, <<"[","T","O","O","L",":">>)
    /\ history[Len(history)].content = shown[Len(shown)]
    /\ Len(history) = turn.hist + 4

\* C18: while no backend call has failed, history at the prompt has even
\* length and alternates user, assistant from its first turn to its last.
C18_AlternatesAtPrompt ==
    (pc = "prompt" /\ errors = << >>) =>
        /\ Len(history) % 2 = 0
        /\ \A i \in 1..Len(history) :
              history[i].role = (IF i % 2 = 1 THEN "user" ELSE "assistant")

\* C18 witness: at the prompt after a plain turn and a turn with tools
C18_Witness ==
    /\ pc = "prompt"
    /\ errors = << >>
    /\ Len(history) = 6
    /\ turn.status = "explained"

\* C19: a failed backend call takes nothing back. After a failed first call
\* history holds one more turn, the user message, and no tool has run; after
\* a failed second call it holds three more: user, assistant with the first
\* reply, user with the tool results. The next chat call sends them all, so
\* its request holds two user turns in a row.
C19_FailureKeepsTurns ==
    /\ [](/\ (turn.status = "failed1" =>
                /\ Len(history) = turn.hist + 1
                /\ history[turn.hist + 1]
                     = [role |-> "user", content |-> turn.message]
                /\ Len(dispatched) = turn.disp
                /\ Len(invoked) = turn.inv)
           /\ (turn.status = "failed2" =>
                /\ Len(history) = turn.hist + 3
                /\ history[turn.hist + 1]
                     = [role |-> "user", content |-> turn.message]
                /\ history[turn.hist + 2]
                     = [role |-> "assistant", content |-> turn.first]
                /\ MarkerStarts(turn.first) # {}
                /\ history[turn.hist + 3].role = "user"
                /\ Cardinality(EntryStarts(history[turn.hist + 3].content))
                     = Len(MarkerNames(turn.first))))
    /\ [][(/\ turn.status \in {"failed1", "failed2"}
           /\ \E u \in UserInputs : AskChat(u)) =>
              /\ IsPrefix(history, history')
              /\ Len(history') = Len(history) + 1
              /\ Tail(requests'[1]) = history'
              /\ requests'[1][Len(history) + 1].role = "user"
              /\ requests'[1][Len(history) + 2].role = "user"]_vars

\* C19 witness: the first request of the turn after a failed second call
\* ends with the tool-results turn of the failed turn and the new user turn
C19_Witness ==
    /\ pc = "call1"
    /\ turns = 2
    /\ turn.errs = 1
    /\ Len(requests[1]) = 5
    /\ requests[1][4].role = "user"
    /\ requests[1][5] = [role |-> "user", content |-> turn.message]
    /\ EntryStarts(requests[1][4].content) # {}

====
